---- MODULE Spec2Model ----
(***************************************************************************)
(* spex: the mixed-value resolver (lib/utils.js) and the drivers built on  *)
(* it: sequence (lib/ext/sequence.js), page (lib/ext/page.js) and          *)
(* stream.read (lib/ext/stream/read.js).                                   *)
(*                                                                         *)
(* One behaviour is one invocation of one driver.  JavaScript runs each    *)
(* job (a call, a promise reaction, an event handler) to completion: the   *)
(* steps of a job are the actions whose pc is in Running, and the          *)
(* environment (promise settlement, stream events) moves only between     *)
(* jobs.                                                                   *)
(***************************************************************************)
EXTENDS Integers, Sequences, FiniteSets, TLC

VARIABLES
    driver,      \* which operation this behaviour invokes
    sourceArg,   \* the source argument (sequence, page)
    destArg,     \* the dest argument (sequence, page) / receiver (read)
    limitArg,    \* the limit argument as passed
    track,       \* the track argument (sequence)
    streamArg,   \* the stream argument (read)
    closable,    \* the closable argument (read)
    pc,          \* position of the invocation
    limit,       \* limit after normalisation
    dest,        \* dest after $utils.wrap
    idx,         \* loop(idx), incremented by next()
    data,        \* sequence: value resolved by the previous pull
    result,      \* sequence: tracked values
    request,     \* page: previous page, resolved as a batch
    total,       \* page: sum of page sizes
    srcTime,     \* time of the previous source call
    destTime,    \* time of the previous dest call
    start,       \* time the method started
    value,       \* utils.resolve: the mixed value being unwrapped
    params,      \* utils.resolve: the parameters given
    delayed,     \* utils.resolve: a promise was awaited
    callArgs,    \* utils.resolve: what each callable of this unwrap was called with
    mixed,       \* utils.resolve: the mixed value this unwrap began with
    nextDelayed, \* sequence: argument of next(delayed)
    destP,       \* promise returned by the last dest call
    destThen,    \* whether then/catch were attached to it
    batchP,      \* page: promise returned by $spex.batch(value)
    batchCalls,  \* page: calls of $spex.batch
    batchDone,   \* page: batches that resolved
    depth,       \* loop activations on the call stack
    outcome,     \* what the returned promise settled with
    settles,     \* calls of resolve and reject of the returned promise
    srcCalls,    \* source invocations (pulls) begun
    srcArgs,     \* arguments of the last source invocation
    srcResolved, \* pulls that resolved (onSuccess called)
    produced,    \* non-undefined values the source resolved with, in order
    thrown,      \* the error of the last failure raised by source, dest or batch
    destCalls,   \* dest invocations
    destArgs,    \* arguments of the last dest invocation
    destSettled, \* dest promises that resolved
    reads,       \* read: chunks read from the stream
    length,      \* read: total length of the chunks read
    index,       \* read: index of the next receiver call
    cbTime,      \* read: time of the previous receiver call
    ready,       \* read: a 'readable' event is waiting to be processed
    waiting,     \* read: process() is busy, or the receiver's promise is pending
    stop,        \* read: the session failed
    listeners,   \* read: the events of the stream the session listens to
    buffer,      \* the stream: lengths of the chunks in its buffer
    pushed,      \* the stream: chunks that arrived so far
    ended,       \* the stream: 'end' was emitted
    closed,      \* the stream: 'close' was emitted
    drained,     \* the stream: flips each time process() reads the buffer
    drains,      \* the stream: the non-empty batches read from it, in order
    genBody,     \* asyncAdapter: what the generator's body does, step by step
    genPos,      \* asyncAdapter: the step the body stands at
    fed,         \* asyncAdapter: what was given back to the body at each yield
    yieldP,      \* asyncAdapter: the promise of the value yielded last
    parked       \* the state of another invocation, while its callbacks do not run

argVars   == <<driver, sourceArg, destArg, limitArg, track, streamArg, closable>>
loopVars  == <<limit, dest, idx, data, result, request, total, srcTime, destTime, start>>
resVars   == <<value, params, delayed, callArgs, mixed>>
batchVars == <<batchP, batchCalls, batchDone>>
promVars  == <<destP, destThen, batchVars>>
ghostVars == <<srcCalls, srcArgs, srcResolved, produced, thrown, destCalls, destArgs, destSettled>>
ghostVarsButThrown == <<srcCalls, srcArgs, srcResolved, produced, destCalls, destArgs, destSettled>>
sessVars  == <<reads, length, index, cbTime, ready, waiting, stop, listeners>>
strmVars  == <<buffer, pushed, ended, closed, drained, drains>>
readVars  == <<sessVars, strmVars>>
genVars   == <<genBody, genPos, fed, yieldP>>
vars == <<argVars, pc, loopVars, resVars, nextDelayed, promVars, depth,
          outcome, settles, ghostVars, readVars, genVars, parked>>

(***************************************************************************)
(* Bounds of the model.                                                    *)
(***************************************************************************)
MaxPulls == 2    \* the source ends (undefined or failure) at pull index MaxPulls at the latest
MaxDepth == 2    \* callables/promises wrapped around the value a source call returns
MaxPageLen == 2  \* longest page a page source gives
MaxChunks == 2   \* chunks that arrive in a stream
MaxYields == 2   \* yields a generator's body makes

(***************************************************************************)
(* JavaScript values.                                                      *)
(***************************************************************************)
Undefined == [t |-> "undefined", v |-> <<>>]
Plain(s)  == [t |-> "string", v |-> <<s>>]
Array(xs) == [t |-> "array", v |-> xs]

Errors == {"e1", "e2"}
SeqValues == {Plain("v1"), Plain("v2")}

\* The items of a page: a mixed value that resolves with "v1", or one that
\* fails with an error.
PageItems == {"v1"} \cup Errors

RECURSIVE SeqsUpTo(_, _)
SeqsUpTo(S, n) ==
    IF n = 0 THEN {<<>>}
    ELSE LET shorter == SeqsUpTo(S, n - 1)
         IN  shorter \cup {Append(xs, x) : xs \in {y \in shorter : Len(y) = n - 1}, x \in S}

\* What a page source resolves with: pages, and a value that is no array.
PageValues == {Plain("v1")} \cup {Array(xs) : xs \in SeqsUpTo(PageItems, MaxPageLen)}

\* Times are kept up to whether they were set: Date.now() gives Time, a
\* variable never assigned holds NoTime, and a difference of two times is a
\* number of milliseconds, Ms (NaN when one of them was never set).
NoTime == "undefined"
Time   == "time"
Ms     == "ms"

\* A mixed value: callables and promises wrapped around what they finally
\* give: a value, a throw (of the innermost callable) or a rejection (of the
\* innermost promise).
NoError == "none"
EndValue(v)  == [kind |-> "value", v |-> v, e |-> NoError]
EndThrow(e)  == [kind |-> "throw", v |-> Undefined, e |-> e]
EndReject(e) == [kind |-> "reject", v |-> Undefined, e |-> e]

RECURSIVE WrapsUpTo(_)
WrapsUpTo(n) ==
    IF n = 0 THEN {<<>>}
    ELSE LET shorter == WrapsUpTo(n - 1)
         IN  shorter \cup
             {<<k>> \o w : k \in {"fn", "promise"},
                           w \in {x \in shorter : Len(x) = n - 1}}

\* A promise never resolves with a promise (promises flatten).
Flat(w) == \A i \in 1..(Len(w) - 1) : ~(w[i] = "promise" /\ w[i + 1] = "promise")

Last(w) == w[Len(w)]

\* What a call of the source function can give at pull i: the source ends
\* at pull MaxPulls at the latest.
EndsAfter(w, vals, i) ==
    {EndValue(Undefined)}
    \cup {EndValue(v) : v \in IF i < MaxPulls THEN vals ELSE {}}
    \cup {EndThrow(x) : x \in IF w = <<>> \/ Last(w) = "fn" THEN Errors ELSE {}}
    \cup {EndReject(x) : x \in IF w # <<>> /\ Last(w) = "promise" THEN Errors ELSE {}}

SourceReturns(vals, i) ==
    UNION {{[wraps |-> w, end |-> e] : e \in EndsAfter(w, vals, i)} :
              w \in {x \in WrapsUpTo(MaxDepth) : Flat(x)}}

(***************************************************************************)
(* lib/utils.js                                                            *)
(***************************************************************************)
\* A check that takes no value for a promise.
isPromiseNever(r) == FALSE

\* isPromise(value): value && value.then instanceof Function
isPromise(r) == r = "promise"

\* wrap(func): a function stays, a generator function goes through
\* asyncAdapter, anything else becomes null.
wrap(f) == IF f \in {"function", "generator"} THEN "callable" ELSE "null"

\* A check that takes any argument for a function.
isFunctionAny(f) == TRUE

\* typeof x === 'function'
isFunction(f) == f \in {"function", "generator"}

\* isReadableStream(obj)
isReadableStream(obj) == obj = "stream"

RECURSIVE LeadingFns(_)
LeadingFns(w) == IF w # <<>> /\ Head(w) = "fn" THEN 1 + LeadingFns(Tail(w)) ELSE 0

\* parseInt(n) of a positive integer: its decimal digits, parsed back.
RECURSIVE ToDigits(_)
ToDigits(n) == IF n < 10 THEN <<n>> ELSE Append(ToDigits(n \div 10), n % 10)

RECURSIVE FromDigits(_)
FromDigits(ds) == IF ds = <<>> THEN 0 ELSE 10 * FromDigits(SubSeq(ds, 1, Len(ds) - 1)) + Last(ds)

parseInt(n) == FromDigits(ToDigits(n))

\* limit = (limit > 0) ? parseInt(limit) : 0
normLimit(l) == IF l > 0 THEN parseInt(l) ELSE 0

Running   == {"loop", "resolve", "onSuccess", "onError", "next", "process"}
Settled   == {"thrown", "resolved", "rejected"}

\* The steps of a generator's body: it yields a value, which resolves (a
\* plain value resolves with itself) or is a promise that rejects, and for
\* a rejection the body has a try/catch around the yield or not; at the
\* end it returns a value or throws.
GenYields ==
    {[op |-> "yield", kind |-> "value", v |-> v, e |-> NoError, caught |-> FALSE] : v \in SeqValues}
    \cup {[op |-> "yield", kind |-> "reject", v |-> Undefined, e |-> e, caught |-> c] :
              e \in Errors, c \in BOOLEAN}

GenEnds ==
    {[op |-> "return", kind |-> "value", v |-> v, e |-> NoError, caught |-> FALSE] :
        v \in SeqValues \cup {Undefined}}
    \cup {[op |-> "throw", kind |-> "throw", v |-> Undefined, e |-> e, caught |-> FALSE] :
              e \in Errors}

GenBodies == {ys \o <<z>> : ys \in SeqsUpTo(GenYields, MaxYields), z \in GenEnds}

\* No other invocation is under way.
NoInvocation == [pc |-> "none"]

\* The arguments of the call.
InitArgs ==
    \/ /\ driver \in {"sequence", "page"}
       /\ sourceArg \in {"function", "object"}
       /\ destArg \in {"undefined", "function"}
       /\ limitArg \in (-1)..MaxPulls
       /\ track \in IF driver = "sequence" THEN BOOLEAN ELSE {FALSE}
       /\ streamArg = "undefined"
       /\ closable = FALSE
    \/ /\ driver = "read"
       /\ streamArg \in {"stream", "object"}
       /\ destArg \in {"undefined", "function"}
       /\ closable \in BOOLEAN
       /\ sourceArg = "undefined"
       /\ limitArg = 0
       /\ track = FALSE
    \/ /\ driver = "asyncAdapter"
       /\ sourceArg = "generator"
       /\ destArg = "undefined"
       /\ streamArg = "undefined"
       /\ closable = FALSE
       /\ limitArg = 0
       /\ track = FALSE

Init ==
    /\ InitArgs
    /\ genBody \in IF driver = "asyncAdapter" THEN GenBodies ELSE {<<>>}
    /\ genPos = 0
    /\ fed = <<>>
    /\ yieldP = "none"
    /\ parked = NoInvocation
    /\ pc = "init"
    /\ limit = 0
    /\ dest = "null"
    /\ idx = 0
    /\ data = Undefined
    /\ result = <<>>
    /\ request = Undefined
    /\ total = 0
    /\ srcTime = NoTime
    /\ destTime = NoTime
    /\ start = NoTime
    /\ value = [wraps |-> <<>>, end |-> EndValue(Undefined)]
    /\ params = <<>>
    /\ delayed = FALSE
    /\ callArgs = <<>>
    /\ mixed = [wraps |-> <<>>, end |-> EndValue(Undefined)]
    /\ nextDelayed = FALSE
    /\ destP = "none"
    /\ destThen = FALSE
    /\ batchP = "none"
    /\ batchCalls = 0
    /\ batchDone = 0
    /\ depth = 0
    /\ outcome = Undefined
    /\ settles = [resolve |-> 0, reject |-> 0]
    /\ srcCalls = 0
    /\ srcArgs = <<>>
    /\ srcResolved = 0
    /\ produced = <<>>
    /\ thrown = NoError
    /\ destCalls = 0
    /\ destArgs = <<>>
    /\ destSettled = 0
    /\ reads = 0
    /\ length = 0
    /\ index = 0
    /\ cbTime = NoTime
    /\ ready = FALSE
    /\ waiting = FALSE
    /\ stop = FALSE
    /\ listeners = {}
    /\ buffer = <<>>
    /\ pushed = 0
    /\ ended = FALSE
    /\ closed = FALSE
    /\ drained = FALSE
    /\ drains = <<>>

(***************************************************************************)
(* Settling the promise the method returned.                               *)
(***************************************************************************)
Resolve(out) ==
    /\ pc' = "resolved"
    /\ outcome' = out
    /\ settles' = [settles EXCEPT !.resolve = @ + 1]
    /\ depth' = 0

Reject(reason) ==
    /\ pc' = "rejected"
    /\ outcome' = reason
    /\ settles' = [settles EXCEPT !.reject = @ + 1]
    /\ depth' = 0

\* Control moves to position p; the call stack unwinds when the job ends there.
Goto(p) ==
    /\ pc' = p
    /\ depth' = IF p \in Running THEN depth ELSE 0
    /\ UNCHANGED <<outcome, settles>>

\* Date.now() - t
Since(t) == IF t = NoTime THEN "NaN" ELSE Ms

\* A delay that is computed at the first call too.
srcDelayAlways(i, t) == Since(t)

\* srcDelay = idx ? (srcNow - srcTime) : undefined
srcDelay(i, t) == IF i # 0 THEN Since(t) ELSE NoTime

(***************************************************************************)
(* utils.resolve(value, params, onSuccess, onError)                        *)
(***************************************************************************)
\* A call that hands the parameters to the first callable only.
argsOfCallFirstOnly(ps, k) == IF ps # <<>> /\ k = 1 THEN "params" ELSE "none"

\* params ? value.apply(self, params) : value.call(self)
argsOfCall(ps, k) == IF ps # <<>> THEN "params" ELSE "none"

\* loop(): call while the value is a function; then wait for a promise, or
\* hand the value to onSuccess; a throw of a callable goes to onError.
ResolveLoop ==
    /\ pc = "resolve"
    /\ LET n    == LeadingFns(value.wraps)
           rest == SubSeq(value.wraps, n + 1, Len(value.wraps))
       IN  /\ callArgs' = callArgs \o [k \in 1..n |-> argsOfCall(params, Len(callArgs) + k)]
           /\ value' = [wraps |-> rest, end |-> value.end]
           /\ IF rest = <<>> /\ value.end.kind = "throw"
              THEN /\ Goto("onError")
                   /\ thrown' = value.end.e
                   /\ UNCHANGED <<srcResolved, produced>>
              ELSE IF rest # <<>>
              THEN /\ Goto("awaitSource")
                   /\ UNCHANGED <<thrown, srcResolved, produced>>
              ELSE /\ Goto("onSuccess")
                   /\ srcResolved' = srcResolved + 1
                   /\ produced' = IF value.end.v = Undefined THEN produced
                                  ELSE Append(produced, value.end.v)
                   /\ UNCHANGED thrown
    /\ UNCHANGED <<argVars, genVars, parked, readVars, loopVars, params, delayed, mixed, nextDelayed, promVars,
                   srcCalls, srcArgs, destCalls, destArgs, destSettled>>

\* A then that loops again with the data and leaves delayed as it is.
ResolveThenNotDelayed ==
    /\ pc = "awaitSource"
    /\ ~(Len(value.wraps) = 1 /\ value.end.kind = "reject")
    /\ value' = [wraps |-> Tail(value.wraps), end |-> value.end]
    /\ Goto("resolve")
    /\ UNCHANGED <<argVars, genVars, parked, readVars, loopVars, params, delayed, callArgs, mixed, nextDelayed,
                   promVars, ghostVars>>

\* The promise the resolver waits for settles: .then sets delayed and loops
\* again with the data, .catch calls onError.
ResolveThen ==
    /\ pc = "awaitSource"
    /\ ~(Len(value.wraps) = 1 /\ value.end.kind = "reject")
    /\ delayed' = TRUE
    /\ value' = [wraps |-> Tail(value.wraps), end |-> value.end]
    /\ Goto("resolve")
    /\ UNCHANGED <<argVars, genVars, parked, readVars, loopVars, params, callArgs, mixed, nextDelayed, promVars, ghostVars>>

\* A catch callback that hands the rejection to onSuccess.
ResolveCatchCallsOnSuccess ==
    /\ pc = "awaitSource"
    /\ Len(value.wraps) = 1 /\ value.end.kind = "reject"
    /\ value' = [wraps |-> <<>>, end |-> value.end]
    /\ thrown' = value.end.e
    /\ srcResolved' = srcResolved + 1
    /\ Goto("onSuccess")
    /\ UNCHANGED <<argVars, genVars, parked, readVars, loopVars, params, delayed, callArgs, mixed, nextDelayed, promVars,
                   srcCalls, srcArgs, produced, destCalls, destArgs, destSettled>>

\* .catch(function (error) { onError(error); })
ResolveCatch ==
    /\ pc = "awaitSource"
    /\ Len(value.wraps) = 1 /\ value.end.kind = "reject"
    /\ value' = [wraps |-> <<>>, end |-> value.end]
    /\ thrown' = value.end.e
    /\ Goto("onError")
    /\ UNCHANGED <<argVars, genVars, parked, readVars, loopVars, params, delayed, callArgs, mixed, nextDelayed, promVars,
                   srcCalls, srcArgs, srcResolved, produced, destCalls, destArgs, destSettled>>

(***************************************************************************)
(* What the caller's functions do.                                         *)
(***************************************************************************)
\* A generator function went through asyncAdapter: its call gives a promise,
\* or throws when the body throws before its first yield.
ReturnsOf(f, vals, i) ==
    IF f = "generator"
    THEN {m \in SourceReturns(vals, i) :
             IF m.wraps = <<>> THEN m.end.kind = "throw" ELSE Head(m.wraps) = "promise"}
    ELSE SourceReturns(vals, i)

DestReturn(v) == [kind |-> "return", v |-> v, e |-> NoError]
DestThrow(e)  == [kind |-> "throw", v |-> "undefined", e |-> e]

DestResults(f) ==
    {DestReturn("promise")} \cup {DestThrow(e) : e \in Errors}
    \cup (IF f = "generator" THEN {} ELSE {DestReturn("undefined")})

(***************************************************************************)
(* lib/ext/sequence.js                                                     *)
(***************************************************************************)
\* A finish() that counts the pull that ended the sequence.
seqResultCountsLastPull(i, res) ==
    IF track THEN [t |-> "array", v |-> res, duration |-> Since(start)]
    ELSE [total |-> i + 1, duration |-> Since(start)]

\* finish(): the result depends on track.
seqResult(i, res) ==
    IF track THEN [t |-> "array", v |-> res, duration |-> Since(start)]
    ELSE [total |-> i, duration |-> Since(start)]

\* A source failure reported the way a dest failure is.
seqSourceFailureAsDest(i, e, d) == [index |-> i, error |-> e, dest |-> d]

\* The reject objects of the two failure sites.
seqSourceFailure(i, e, d) == [index |-> i, error |-> e, source |-> d]
seqDestFailure(i, e, d)   == [index |-> i, error |-> e, dest |-> d]

\* sequence(source, dest, limit, track) up to loop(0)
sequence ==
    /\ driver = "sequence" /\ pc = "init"
    /\ IF ~isFunction(sourceArg)
       THEN /\ Goto("thrown")
            /\ thrown' = "Invalid sequence source."
            /\ UNCHANGED <<limit, dest, start>>
       ELSE /\ limit' = normLimit(limitArg)
            /\ dest' = wrap(destArg)
            /\ start' = Time
            /\ Goto("loop")
            /\ UNCHANGED thrown
    /\ UNCHANGED <<argVars, genVars, parked, readVars, idx, data, result, request, total, srcTime, destTime,
                   resVars, nextDelayed, promVars,
                   srcCalls, srcArgs, srcResolved, produced, destCalls, destArgs, destSettled>>

\* loop(idx): the source is asked for the next value.
SeqLoop ==
    /\ driver = "sequence" /\ pc = "loop"
    /\ srcTime' = Time
    /\ params' = <<idx, data, srcDelay(idx, srcTime)>>
    /\ \E m \in ReturnsOf(sourceArg, SeqValues, idx) :
           value' = [wraps |-> <<"fn">> \o m.wraps, end |-> m.end]
    /\ delayed' = FALSE
    /\ callArgs' = <<>>
    /\ mixed' = value'
    /\ srcCalls' = srcCalls + 1
    /\ srcArgs' = params'
    /\ pc' = "resolve"
    /\ depth' = depth + 1
    /\ UNCHANGED <<argVars, genVars, parked, readVars, limit, dest, idx, data, result, request, total, destTime,
                   start, nextDelayed, promVars, outcome, settles,
                   srcResolved, produced, thrown, destCalls, destArgs, destSettled>>

\* The success callback given to the resolver.
SeqOnSuccess ==
    /\ driver = "sequence" /\ pc = "onSuccess"
    /\ data' = value.end.v
    /\ IF data' = Undefined
       THEN /\ Resolve(seqResult(idx, result))
            /\ UNCHANGED <<result, destTime, nextDelayed, destP, destThen,
                           thrown, destCalls, destArgs>>
       ELSE /\ result' = IF track THEN Append(result, data') ELSE result
            /\ IF dest # "null"
               THEN /\ destTime' = Time
                    /\ destCalls' = destCalls + 1
                    /\ destArgs' = <<idx, data', IF idx # 0 THEN Since(destTime) ELSE NoTime>>
                    /\ \E r \in DestResults(destArg) :
                         IF r.kind = "throw"
                         THEN /\ Reject(seqDestFailure(idx, r.e, data'))
                              /\ thrown' = r.e
                              /\ UNCHANGED <<nextDelayed, destP, destThen>>
                         ELSE /\ destP' = IF r.v = "promise" THEN "pending" ELSE "none"
                              /\ destThen' = isPromise(r.v)
                              /\ UNCHANGED thrown
                              /\ IF isPromise(r.v)
                                 THEN Goto("awaitDest") /\ UNCHANGED nextDelayed
                                 ELSE Goto("next") /\ nextDelayed' = delayed
               ELSE /\ Goto("next")
                    /\ nextDelayed' = delayed
                    /\ UNCHANGED <<destTime, destP, destThen, thrown, destCalls, destArgs>>
    /\ UNCHANGED <<argVars, genVars, parked, readVars, limit, dest, idx, request, total, srcTime, start,
                   resVars, batchVars, srcCalls, srcArgs, srcResolved, produced, destSettled>>

\* The error callback given to the resolver.
SeqOnError ==
    /\ driver = "sequence" /\ pc = "onError"
    /\ Reject(seqSourceFailure(idx, value.end.e, data))
    /\ UNCHANGED <<argVars, genVars, parked, readVars, loopVars, resVars, nextDelayed, promVars, ghostVars>>

\* destResult.then(function () { next(true); })
SeqDestThen ==
    /\ driver = "sequence" /\ pc = "awaitDest"
    /\ destP = "pending" /\ destThen
    /\ destP' = "resolved"
    /\ destSettled' = destSettled + 1
    /\ nextDelayed' = TRUE
    /\ Goto("next")
    /\ UNCHANGED <<argVars, genVars, parked, readVars, loopVars, resVars, destThen, batchVars,
                   srcCalls, srcArgs, srcResolved, produced, thrown, destCalls, destArgs>>

\* destResult.catch(function (error) { reject(...) })
SeqDestCatch ==
    /\ driver = "sequence" /\ pc = "awaitDest"
    /\ destP = "pending" /\ destThen
    /\ destP' = "rejected"
    /\ \E e \in Errors :
         /\ thrown' = e
         /\ Reject(seqDestFailure(idx, e, data))
    /\ UNCHANGED <<argVars, genVars, parked, readVars, loopVars, resVars, nextDelayed, destThen, batchVars,
                   srcCalls, srcArgs, srcResolved, produced, destCalls, destArgs, destSettled>>

\* A next() that compares the limit before it advances the index.
SeqNextLateLimit ==
    /\ driver = "sequence" /\ pc = "next"
    /\ idx' = idx + 1
    /\ IF limit = idx
       THEN Resolve(seqResult(idx', result))
       ELSE IF nextDelayed THEN Goto("loop") ELSE Goto("microtask")
    /\ UNCHANGED <<argVars, genVars, parked, readVars, limit, dest, data, result, request, total, srcTime,
                   destTime, start, resVars, nextDelayed, promVars, ghostVars>>

\* A next() that calls loop(idx) itself in every case.
SeqNextDirect ==
    /\ driver = "sequence" /\ pc = "next"
    /\ idx' = idx + 1
    /\ IF limit = idx'
       THEN Resolve(seqResult(idx', result))
       ELSE Goto("loop")
    /\ UNCHANGED <<argVars, genVars, parked, readVars, limit, dest, data, result, request, total, srcTime,
                   destTime, start, resVars, nextDelayed, promVars, ghostVars>>

\* next(delayed)
SeqNext ==
    /\ driver = "sequence" /\ pc = "next"
    /\ idx' = idx + 1
    /\ IF limit = idx'
       THEN Resolve(seqResult(idx', result))
       ELSE IF nextDelayed THEN Goto("loop") ELSE Goto("microtask")
    /\ UNCHANGED <<argVars, genVars, parked, readVars, limit, dest, data, result, request, total, srcTime,
                   destTime, start, resVars, nextDelayed, promVars, ghostVars>>

\* $p.resolve().then(function () { loop(idx); })
SeqMicrotask ==
    /\ driver = "sequence" /\ pc = "microtask"
    /\ Goto("loop")
    /\ UNCHANGED <<argVars, genVars, parked, readVars, loopVars, resVars, nextDelayed, promVars, ghostVars>>

(***************************************************************************)
(* $spex.batch(values): resolves every mixed value of the array; resolves  *)
(* with the array of the resolved values, or rejects with an array that    *)
(* gives the items' errors through getErrors().                            *)
(***************************************************************************)
IsError(x) == x \in Errors

batchFails(xs) == \E k \in 1..Len(xs) : IsError(xs[k])

batchData(xs) == xs

batchError(xs) == [getErrors |-> SelectSeq(xs, IsError)]

(***************************************************************************)
(* lib/ext/page.js                                                         *)
(***************************************************************************)
\* A check that lets every value but undefined through.
isArrayUnchecked(v) == TRUE

\* value instanceof Array
isArray(v) == v.t = "array"

unexpected == "Unexpected data returned from the source."

\* A getError that gives the last of the batch's errors.
getErrorLast(reason) ==
    IF "data" \in DOMAIN reason THEN Last(reason.data.getErrors) ELSE reason.error

\* getError of a reject object
getError(reason) ==
    IF "data" \in DOMAIN reason THEN reason.data.getErrors[1] ELSE reason.error

\* A fail() that sets the index and no accessor.
pageFailNoAccessor(reason, i) == reason @@ [index |-> i]

\* fail(reason): the index and getError are added.
pageFail(reason, i) == reason @@ [index |-> i, getError |-> "function"]

\* A success() with the two counters exchanged.
pageResultSwapped(i, n) == [pages |-> n, total |-> i, duration |-> Since(start)]

\* success()
pageResult(i, n) == [pages |-> i, total |-> n, duration |-> Since(start)]

\* page(source, dest, limit) up to loop(0)
page ==
    /\ driver = "page" /\ pc = "init"
    /\ IF ~isFunction(sourceArg)
       THEN /\ Goto("thrown")
            /\ thrown' = "Invalid page source."
            /\ UNCHANGED <<limit, dest, start>>
       ELSE /\ limit' = normLimit(limitArg)
            /\ dest' = wrap(destArg)
            /\ start' = Time
            /\ Goto("loop")
            /\ UNCHANGED thrown
    /\ UNCHANGED <<argVars, genVars, parked, readVars, idx, data, result, request, total, srcTime, destTime,
                   resVars, nextDelayed, promVars,
                   srcCalls, srcArgs, srcResolved, produced, destCalls, destArgs, destSettled>>

\* loop(idx): the source is asked for the next page.
PageLoop ==
    /\ driver = "page" /\ pc = "loop"
    /\ srcTime' = Time
    /\ params' = <<idx, request, srcDelay(idx, srcTime)>>
    /\ \E m \in ReturnsOf(sourceArg, PageValues, idx) :
           value' = [wraps |-> <<"fn">> \o m.wraps, end |-> m.end]
    /\ delayed' = FALSE
    /\ callArgs' = <<>>
    /\ mixed' = value'
    /\ srcCalls' = srcCalls + 1
    /\ srcArgs' = params'
    /\ pc' = "resolve"
    /\ depth' = depth + 1
    /\ UNCHANGED <<argVars, genVars, parked, readVars, limit, dest, idx, data, result, request, total, destTime,
                   start, nextDelayed, promVars, outcome, settles,
                   srcResolved, produced, thrown, destCalls, destArgs, destSettled>>

\* The success callback given to the resolver.
PageOnSuccess ==
    /\ driver = "page" /\ pc = "onSuccess"
    /\ IF value.end.v = Undefined
       THEN /\ Resolve(pageResult(idx, total))
            /\ UNCHANGED <<batchVars, thrown>>
       ELSE IF isArray(value.end.v)
       THEN /\ batchP' = "pending"
            /\ batchCalls' = batchCalls + 1
            /\ Goto("awaitBatch")
            /\ UNCHANGED <<batchDone, thrown>>
       ELSE /\ Reject(pageFail([error |-> unexpected, source |-> request], idx))
            /\ thrown' = unexpected
            /\ UNCHANGED batchVars
    /\ UNCHANGED <<argVars, genVars, parked, readVars, loopVars, resVars, nextDelayed, destP, destThen,
                   srcCalls, srcArgs, srcResolved, produced, destCalls, destArgs, destSettled>>

\* The error callback given to the resolver.
PageOnError ==
    /\ driver = "page" /\ pc = "onError"
    /\ Reject(pageFail([error |-> value.end.e, source |-> request], idx))
    /\ UNCHANGED <<argVars, genVars, parked, readVars, loopVars, resVars, nextDelayed, promVars, ghostVars>>

\* $spex.batch(value).then(function (data) {...}): the page is counted and
\* handed to dest.
PageBatchThen ==
    /\ driver = "page" /\ pc = "awaitBatch"
    /\ batchP = "pending"
    /\ ~batchFails(value.end.v.v)
    /\ batchP' = "resolved"
    /\ batchDone' = batchDone + 1
    /\ LET page_data == Array(batchData(value.end.v.v))
       IN  /\ request' = page_data
           /\ total' = total + Len(page_data.v)
           /\ IF dest # "null"
              THEN /\ destTime' = Time
                   /\ destCalls' = destCalls + 1
                   /\ destArgs' = <<idx, page_data, IF idx # 0 THEN Since(destTime) ELSE NoTime>>
                   /\ \E r \in DestResults(destArg) :
                        IF r.kind = "throw"
                        THEN /\ Reject(pageFail([error |-> r.e, dest |-> page_data], idx))
                             /\ thrown' = r.e
                             /\ UNCHANGED <<destP, destThen>>
                        ELSE /\ destP' = IF r.v = "promise" THEN "pending" ELSE "none"
                             /\ destThen' = isPromise(r.v)
                             /\ UNCHANGED thrown
                             /\ IF isPromise(r.v) THEN Goto("awaitDest") ELSE Goto("next")
              ELSE /\ Goto("next")
                   /\ UNCHANGED <<destTime, destP, destThen, thrown, destCalls, destArgs>>
    /\ UNCHANGED <<argVars, genVars, parked, readVars, limit, dest, idx, data, result, srcTime, start,
                   resVars, nextDelayed, batchCalls,
                   srcCalls, srcArgs, srcResolved, produced, destSettled>>

\* $spex.batch(value).catch(function (error) { fail({data: error}); })
PageBatchCatch ==
    /\ driver = "page" /\ pc = "awaitBatch"
    /\ batchP = "pending"
    /\ batchFails(value.end.v.v)
    /\ batchP' = "rejected"
    /\ LET error == batchError(value.end.v.v)
       IN  /\ Reject(pageFail([data |-> error], idx))
           /\ thrown' = error.getErrors[1]
    /\ UNCHANGED <<argVars, genVars, parked, readVars, loopVars, resVars, nextDelayed, destP, destThen,
                   batchCalls, batchDone,
                   srcCalls, srcArgs, srcResolved, produced, destCalls, destArgs, destSettled>>

\* destResult.then(next)
PageDestThen ==
    /\ driver = "page" /\ pc = "awaitDest"
    /\ destP = "pending" /\ destThen
    /\ destP' = "resolved"
    /\ destSettled' = destSettled + 1
    /\ Goto("next")
    /\ UNCHANGED <<argVars, genVars, parked, readVars, loopVars, resVars, nextDelayed, destThen, batchVars,
                   srcCalls, srcArgs, srcResolved, produced, thrown, destCalls, destArgs>>

\* A catch that goes on to the next page when the promise of dest rejects.
PageDestCatchContinues ==
    /\ driver = "page" /\ pc = "awaitDest"
    /\ destP = "pending" /\ destThen
    /\ destP' = "rejected"
    /\ \E e \in Errors : thrown' = e
    /\ Goto("next")
    /\ UNCHANGED <<argVars, genVars, parked, readVars, loopVars, resVars, nextDelayed, destThen, batchVars,
                   srcCalls, srcArgs, srcResolved, produced, destCalls, destArgs, destSettled>>

\* destResult.catch(function (error) { fail(...) })
PageDestCatch ==
    /\ driver = "page" /\ pc = "awaitDest"
    /\ destP = "pending" /\ destThen
    /\ destP' = "rejected"
    /\ \E e \in Errors :
         /\ thrown' = e
         /\ Reject(pageFail([error |-> e, dest |-> request], idx))
    /\ UNCHANGED <<argVars, genVars, parked, readVars, loopVars, resVars, nextDelayed, destThen, batchVars,
                   srcCalls, srcArgs, srcResolved, produced, destCalls, destArgs, destSettled>>

\* next()
PageNext ==
    /\ driver = "page" /\ pc = "next"
    /\ idx' = idx + 1
    /\ IF limit = idx'
       THEN Resolve(pageResult(idx', total))
       ELSE Goto("loop")
    /\ UNCHANGED <<argVars, genVars, parked, readVars, limit, dest, data, result, request, total, srcTime,
                   destTime, start, resVars, nextDelayed, promVars, ghostVars>>

(***************************************************************************)
(* lib/ext/stream/read.js                                                  *)
(***************************************************************************)
\* What stays as it is in a session of read.
pullVars == <<limit, idx, data, result, request, total, srcTime, destTime, resVars,
              nextDelayed, batchVars, srcCalls, srcArgs, srcResolved, produced>>

Events == {"readable", "end", "close", "error"}

ChunkLengths == {1, 2}

RECURSIVE Sum(_)
Sum(ns) == IF ns = <<>> THEN 0 ELSE Head(ns) + Sum(Tail(ns))

IsSettled == settles.resolve + settles.reject > 0

\* resolve(...) and reject(...) of the promise read returned: the first call
\* settles it.
ReadResolve(out) ==
    /\ settles' = [settles EXCEPT !.resolve = @ + 1]
    /\ outcome' = IF IsSettled THEN outcome ELSE out

ReadReject(reason) ==
    /\ settles' = [settles EXCEPT !.reject = @ + 1]
    /\ outcome' = IF IsSettled THEN outcome ELSE reason

\* A gate that does not look at the waiting flag.
mayProcessWhileWaiting == ready /\ ~stop

\* A gate that does not look at the stop flag.
mayProcessAfterStop == ready /\ ~waiting

\* if (!ready || stop || waiting) return;
mayProcess == ready /\ ~stop /\ ~waiting

\* A cleanup() that leaves the listener of 'close' on the stream.
cleanupKeepsClose(ls) == ls \ {"readable", "error", "end"}

\* cleanup(): removeListener for each of the four events.
cleanup(ls) == ls \ {"readable", "close", "error", "end"}

\* A success() with calls and reads exchanged.
readResultSwapped == [calls |-> reads, reads |-> index, length |-> length, duration |-> Since(start)]

\* success(): what the promise resolves with.
readResult == [calls |-> index, reads |-> reads, length |-> length, duration |-> Since(start)]

\* read(stream, receiver, closable, readSize) up to the registration of the
\* listeners.
read ==
    /\ driver = "read" /\ pc = "init"
    /\ IF ~isReadableStream(streamArg)
       THEN /\ Goto("thrown")
            /\ thrown' = "Readable stream is required."
            /\ UNCHANGED <<dest, start, listeners>>
       ELSE IF ~isFunction(destArg)
       THEN /\ Goto("thrown")
            /\ thrown' = "Invalid stream receiver."
            /\ UNCHANGED <<dest, start, listeners>>
       ELSE /\ dest' = wrap(destArg)
            /\ start' = Time
            /\ listeners' = Events
            /\ Goto("listening")
            /\ UNCHANGED thrown
    /\ UNCHANGED <<argVars, genVars, parked, pullVars, destP, destThen, destCalls, destArgs, destSettled,
                   reads, length, index, cbTime, ready, waiting, stop, strmVars>>

\* A chunk arrives in the buffer of the stream.
StreamPush ==
    /\ driver = "read" /\ pc = "listening"
    /\ ~ended /\ ~closed
    /\ pushed < MaxChunks
    /\ pushed' = pushed + 1
    /\ \E n \in ChunkLengths : buffer' = Append(buffer, n)
    /\ UNCHANGED <<argVars, genVars, parked, pc, loopVars, resVars, nextDelayed, promVars, depth,
                   outcome, settles, ghostVars, sessVars, ended, closed, drained, drains>>

\* 'readable': ready = true; process()
onReadable ==
    /\ driver = "read" /\ pc = "listening"
    /\ "readable" \in listeners
    /\ ready' = TRUE
    /\ Goto("process")
    /\ UNCHANGED <<argVars, genVars, parked, loopVars, resVars, nextDelayed, promVars, ghostVars,
                   reads, length, index, cbTime, waiting, stop, listeners, strmVars>>

\* process(): the buffer is read until it is empty, and what was read goes
\* to the receiver.
process ==
    /\ driver = "read" /\ pc = "process"
    /\ IF ~mayProcess
       THEN /\ Goto("listening")
            /\ UNCHANGED <<sessVars, strmVars, destP, destThen, destCalls, destArgs, thrown>>
       ELSE /\ ready' = FALSE
            /\ buffer' = <<>>
            /\ drained' = ~drained
            /\ drains' = IF buffer = <<>> THEN drains ELSE Append(drains, buffer)
            /\ reads' = reads + Len(buffer)
            /\ length' = length + Sum(buffer)
            /\ UNCHANGED <<pushed, ended, closed>>
            /\ IF buffer = <<>>
               THEN /\ waiting' = FALSE
                    /\ Goto("listening")
                    /\ UNCHANGED <<index, cbTime, stop, listeners, destP, destThen,
                                   destCalls, destArgs, thrown>>
               ELSE /\ index' = index + 1
                    /\ cbTime' = Time
                    /\ destCalls' = destCalls + 1
                    /\ destArgs' = <<index, buffer, IF index # 0 THEN Since(cbTime) ELSE NoTime>>
                    /\ \E r \in DestResults(destArg) :
                         IF r.kind = "throw"
                         THEN /\ waiting' = TRUE
                              /\ stop' = TRUE
                              /\ listeners' = cleanup(listeners)
                              /\ ReadReject(r.e)
                              /\ thrown' = r.e
                              /\ pc' = "listening" /\ depth' = 0
                              /\ UNCHANGED <<destP, destThen>>
                         ELSE /\ destP' = IF r.v = "promise" THEN "pending" ELSE "none"
                              /\ destThen' = isPromise(r.v)
                              /\ waiting' = isPromise(r.v)
                              /\ IF isPromise(r.v) THEN Goto("listening") ELSE Goto("process")
                              /\ UNCHANGED <<stop, listeners, thrown>>
    /\ UNCHANGED <<argVars, genVars, parked, pullVars, dest, start, destSettled>>

\* A then that clears waiting and does not call process().
receiverThenNoRetry ==
    /\ driver = "read" /\ pc = "listening"
    /\ destP = "pending" /\ destThen
    /\ destP' = "resolved"
    /\ destSettled' = destSettled + 1
    /\ waiting' = FALSE
    /\ Goto("listening")
    /\ UNCHANGED <<argVars, genVars, parked, pullVars, dest, start, destThen, thrown, destCalls, destArgs,
                   reads, length, index, cbTime, ready, stop, listeners, strmVars>>

\* result.then(function () { waiting = false; process(); })
receiverThen ==
    /\ driver = "read" /\ pc = "listening"
    /\ destP = "pending" /\ destThen
    /\ destP' = "resolved"
    /\ destSettled' = destSettled + 1
    /\ waiting' = FALSE
    /\ Goto("process")
    /\ UNCHANGED <<argVars, genVars, parked, pullVars, dest, start, destThen, thrown, destCalls, destArgs,
                   reads, length, index, cbTime, ready, stop, listeners, strmVars>>

\* result.catch(function (error) { fail(error); })
receiverCatch ==
    /\ driver = "read" /\ pc = "listening"
    /\ destP = "pending" /\ destThen
    /\ destP' = "rejected"
    /\ \E e \in Errors :
         /\ thrown' = e
         /\ ReadReject(e)
    /\ stop' = TRUE
    /\ listeners' = cleanup(listeners)
    /\ UNCHANGED <<argVars, genVars, parked, pullVars, dest, start, destThen, destCalls, destArgs, destSettled,
                   pc, depth, reads, length, index, cbTime, ready, waiting, strmVars>>

\* 'end': success() unless closable
onEnd ==
    /\ driver = "read" /\ pc = "listening"
    /\ "end" \in listeners
    /\ ~ended /\ buffer = <<>>
    /\ ended' = TRUE
    /\ IF ~closable
       THEN /\ listeners' = cleanup(listeners)
            /\ ReadResolve(readResult)
       ELSE UNCHANGED <<listeners, outcome, settles>>
    /\ UNCHANGED <<argVars, genVars, parked, pullVars, dest, start, destP, destThen, thrown, destCalls, destArgs,
                   destSettled, pc, depth, reads, length, index, cbTime, ready, waiting, stop,
                   buffer, pushed, closed, drained, drains>>

\* 'close': success()
onClose ==
    /\ driver = "read" /\ pc = "listening"
    /\ "close" \in listeners
    /\ ~closed
    /\ closed' = TRUE
    /\ listeners' = cleanup(listeners)
    /\ ReadResolve(readResult)
    /\ UNCHANGED <<argVars, genVars, parked, pullVars, dest, start, destP, destThen, thrown, destCalls, destArgs,
                   destSettled, pc, depth, reads, length, index, cbTime, ready, waiting, stop,
                   buffer, pushed, ended, drained, drains>>

\* 'error': fail(error)
onError ==
    /\ driver = "read" /\ pc = "listening"
    /\ "error" \in listeners
    /\ \E e \in Errors :
         /\ thrown' = e
         /\ ReadReject(e)
    /\ stop' = TRUE
    /\ listeners' = cleanup(listeners)
    /\ UNCHANGED <<argVars, genVars, parked, pullVars, dest, start, destP, destThen, destCalls, destArgs,
                   destSettled, pc, depth, reads, length, index, cbTime, ready, waiting,
                   strmVars>>

(***************************************************************************)
(* lib/utils.js: asyncAdapter(generator)                                   *)
(***************************************************************************)
\* What does not take part in a call of the function asyncAdapter returns.
driverVars == <<loopVars, resVars, nextDelayed, promVars, ghostVarsButThrown, readVars>>

\* handle(result), for the result the body gives at its step k: the
\* promise resolves when the body is done, and waits for the value when
\* it yielded one.  A throw of the body leaves the function it is in: the
\* call itself (sync), or the callback of a yielded promise.
handle(k, sync) ==
    LET r == genBody[k]
    IN  /\ genPos' = k
        /\ CASE r.op = "yield" ->
                  /\ yieldP' = "pending"
                  /\ Goto("awaitYield")
                  /\ UNCHANGED thrown
             [] r.op = "return" ->
                  /\ yieldP' = IF sync THEN "none" ELSE "settled"
                  /\ Resolve(r.v)
                  /\ UNCHANGED thrown
             [] r.op = "throw" ->
                  /\ yieldP' = IF sync THEN "none" ELSE "settled"
                  /\ thrown' = r.e
                  /\ IF sync THEN Goto("thrown") ELSE Reject(r.e)

\* The function asyncAdapter returns is called: g = generator.apply(this,
\* arguments); return handle(g.next())
asyncAdapter ==
    /\ driver = "asyncAdapter" /\ pc = "init"
    /\ handle(1, TRUE)
    /\ UNCHANGED <<argVars, driverVars, parked, genBody, fed>>

\* A then that goes on with g.next() and does not hand the value on.
handleNextNoValue ==
    /\ driver = "asyncAdapter" /\ pc = "awaitYield"
    /\ yieldP = "pending"
    /\ genBody[genPos].kind = "value"
    /\ fed' = Append(fed, [op |-> "next", v |-> Undefined, e |-> NoError])
    /\ handle(genPos + 1, FALSE)
    /\ UNCHANGED <<argVars, driverVars, parked, genBody>>

\* The value yielded resolves: handle(g.next(res))
handleNext ==
    /\ driver = "asyncAdapter" /\ pc = "awaitYield"
    /\ yieldP = "pending"
    /\ genBody[genPos].kind = "value"
    /\ fed' = Append(fed, [op |-> "next", v |-> genBody[genPos].v, e |-> NoError])
    /\ handle(genPos + 1, FALSE)
    /\ UNCHANGED <<argVars, driverVars, parked, genBody>>

\* The value yielded rejects: handle(g.throw(err)); a body that does not
\* catch the error throws it from g.throw.
handleThrow ==
    /\ driver = "asyncAdapter" /\ pc = "awaitYield"
    /\ yieldP = "pending"
    /\ genBody[genPos].kind = "reject"
    /\ fed' = Append(fed, [op |-> "throw", v |-> Undefined, e |-> genBody[genPos].e])
    /\ IF genBody[genPos].caught
       THEN handle(genPos + 1, FALSE)
       ELSE /\ genPos' = genPos
            /\ yieldP' = "settled"
            /\ thrown' = genBody[genPos].e
            /\ Reject(genBody[genPos].e)
    /\ UNCHANGED <<argVars, driverVars, parked, genBody>>

Next ==
    \/ asyncAdapter \/ handleNext \/ handleThrow
    \/ ResolveLoop \/ ResolveThen \/ ResolveCatch
    \/ sequence \/ SeqLoop \/ SeqOnSuccess \/ SeqOnError
    \/ SeqDestThen \/ SeqDestCatch \/ SeqNext \/ SeqMicrotask
    \/ page \/ PageLoop \/ PageOnSuccess \/ PageOnError
    \/ PageBatchThen \/ PageBatchCatch \/ PageDestThen \/ PageDestCatch \/ PageNext
    \/ read \/ StreamPush \/ onReadable \/ process \/ receiverThen \/ receiverCatch
    \/ onEnd \/ onClose \/ onError

Spec == Init /\ [][Next]_vars

(***************************************************************************)
(* Two invocations of one method.  The variables of an invocation are      *)
(* those of its own call (var ..., and the functions declared inside the   *)
(* promise's callback): between two jobs of one invocation, a job of the   *)
(* other may run, with the variables of that other call.                   *)
(***************************************************************************)
\* The variables of the invocation whose job runs.
Park ==
    [driver |-> driver, sourceArg |-> sourceArg, destArg |-> destArg,
     limitArg |-> limitArg, track |-> track, streamArg |-> streamArg,
     closable |-> closable, pc |-> pc, limit |-> limit, dest |-> dest, idx |-> idx,
     data |-> data, result |-> result, request |-> request, total |-> total,
     srcTime |-> srcTime, destTime |-> destTime, start |-> start, value |-> value,
     params |-> params, delayed |-> delayed, callArgs |-> callArgs,
     mixed |-> mixed, nextDelayed |-> nextDelayed, destP |-> destP,
     destThen |-> destThen, batchP |-> batchP, batchCalls |-> batchCalls,
     batchDone |-> batchDone, depth |-> depth, outcome |-> outcome,
     settles |-> settles, srcCalls |-> srcCalls, srcArgs |-> srcArgs,
     srcResolved |-> srcResolved, produced |-> produced, thrown |-> thrown,
     destCalls |-> destCalls, destArgs |-> destArgs, destSettled |-> destSettled,
     reads |-> reads, length |-> length, index |-> index, cbTime |-> cbTime,
     ready |-> ready, waiting |-> waiting, stop |-> stop, listeners |-> listeners,
     buffer |-> buffer, pushed |-> pushed, ended |-> ended, closed |-> closed,
     drained |-> drained, drains |-> drains, genBody |-> genBody,
     genPos |-> genPos, fed |-> fed, yieldP |-> yieldP]

\* The variables of an invocation as they are when the method is called.
StartOf(d, src, dst, lim, trk, strm, cl, arrived) ==
    [driver |-> d, sourceArg |-> src, destArg |-> dst, limitArg |-> lim,
     track |-> trk, streamArg |-> strm, closable |-> cl, pc |-> "init",
     limit |-> 0, dest |-> "null", idx |-> 0, data |-> Undefined, result |-> <<>>,
     request |-> Undefined, total |-> 0, srcTime |-> NoTime, destTime |-> NoTime,
     start |-> NoTime, value |-> [wraps |-> <<>>, end |-> EndValue(Undefined)],
     params |-> <<>>, delayed |-> FALSE, callArgs |-> <<>>,
     mixed |-> [wraps |-> <<>>, end |-> EndValue(Undefined)],
     nextDelayed |-> FALSE, destP |-> "none", destThen |-> FALSE,
     batchP |-> "none", batchCalls |-> 0, batchDone |-> 0, depth |-> 0,
     outcome |-> Undefined, settles |-> [resolve |-> 0, reject |-> 0],
     srcCalls |-> 0, srcArgs |-> <<>>, srcResolved |-> 0, produced |-> <<>>,
     thrown |-> NoError, destCalls |-> 0, destArgs |-> <<>>, destSettled |-> 0,
     reads |-> 0, length |-> 0, index |-> 0, cbTime |-> NoTime, ready |-> FALSE,
     waiting |-> FALSE, stop |-> FALSE, listeners |-> {}, buffer |-> <<>>,
     pushed |-> arrived, ended |-> FALSE, closed |-> FALSE, drained |-> FALSE,
     drains |-> <<>>, genBody |-> <<>>, genPos |-> 0, fed |-> <<>>,
     yieldP |-> "none"]

Holds(r) ==
    /\ driver = r.driver
    /\ sourceArg = r.sourceArg
    /\ destArg = r.destArg
    /\ limitArg = r.limitArg
    /\ track = r.track
    /\ streamArg = r.streamArg
    /\ closable = r.closable
    /\ pc = r.pc
    /\ limit = r.limit
    /\ dest = r.dest
    /\ idx = r.idx
    /\ data = r.data
    /\ result = r.result
    /\ request = r.request
    /\ total = r.total
    /\ srcTime = r.srcTime
    /\ destTime = r.destTime
    /\ start = r.start
    /\ value = r.value
    /\ params = r.params
    /\ delayed = r.delayed
    /\ callArgs = r.callArgs
    /\ mixed = r.mixed
    /\ nextDelayed = r.nextDelayed
    /\ destP = r.destP
    /\ destThen = r.destThen
    /\ batchP = r.batchP
    /\ batchCalls = r.batchCalls
    /\ batchDone = r.batchDone
    /\ depth = r.depth
    /\ outcome = r.outcome
    /\ settles = r.settles
    /\ srcCalls = r.srcCalls
    /\ srcArgs = r.srcArgs
    /\ srcResolved = r.srcResolved
    /\ produced = r.produced
    /\ thrown = r.thrown
    /\ destCalls = r.destCalls
    /\ destArgs = r.destArgs
    /\ destSettled = r.destSettled
    /\ reads = r.reads
    /\ length = r.length
    /\ index = r.index
    /\ cbTime = r.cbTime
    /\ ready = r.ready
    /\ waiting = r.waiting
    /\ stop = r.stop
    /\ listeners = r.listeners
    /\ buffer = r.buffer
    /\ pushed = r.pushed
    /\ ended = r.ended
    /\ closed = r.closed
    /\ drained = r.drained
    /\ drains = r.drains
    /\ genBody = r.genBody
    /\ genPos = r.genPos
    /\ fed = r.fed
    /\ yieldP = r.yieldP

\* A job of the invocation r runs with the index of the invocation that
\* ran before it, as it would were idx declared outside the method.
ResumeSharingIdx(r) ==
    /\ driver' = r.driver
    /\ sourceArg' = r.sourceArg
    /\ destArg' = r.destArg
    /\ limitArg' = r.limitArg
    /\ track' = r.track
    /\ streamArg' = r.streamArg
    /\ closable' = r.closable
    /\ pc' = r.pc
    /\ limit' = r.limit
    /\ dest' = r.dest
    /\ idx' = idx
    /\ data' = r.data
    /\ result' = r.result
    /\ request' = r.request
    /\ total' = r.total
    /\ srcTime' = r.srcTime
    /\ destTime' = r.destTime
    /\ start' = r.start
    /\ value' = r.value
    /\ params' = r.params
    /\ delayed' = r.delayed
    /\ callArgs' = r.callArgs
    /\ mixed' = r.mixed
    /\ nextDelayed' = r.nextDelayed
    /\ destP' = r.destP
    /\ destThen' = r.destThen
    /\ batchP' = r.batchP
    /\ batchCalls' = r.batchCalls
    /\ batchDone' = r.batchDone
    /\ depth' = r.depth
    /\ outcome' = r.outcome
    /\ settles' = r.settles
    /\ srcCalls' = r.srcCalls
    /\ srcArgs' = r.srcArgs
    /\ srcResolved' = r.srcResolved
    /\ produced' = r.produced
    /\ thrown' = r.thrown
    /\ destCalls' = r.destCalls
    /\ destArgs' = r.destArgs
    /\ destSettled' = r.destSettled
    /\ reads' = r.reads
    /\ length' = r.length
    /\ index' = r.index
    /\ cbTime' = r.cbTime
    /\ ready' = r.ready
    /\ waiting' = r.waiting
    /\ stop' = r.stop
    /\ listeners' = r.listeners
    /\ buffer' = r.buffer
    /\ pushed' = r.pushed
    /\ ended' = r.ended
    /\ closed' = r.closed
    /\ drained' = r.drained
    /\ drains' = r.drains
    /\ genBody' = r.genBody
    /\ genPos' = r.genPos
    /\ fed' = r.fed
    /\ yieldP' = r.yieldP

\* A job of the invocation r runs: with the variables of r.
Resume(r) ==
    /\ driver' = r.driver
    /\ sourceArg' = r.sourceArg
    /\ destArg' = r.destArg
    /\ limitArg' = r.limitArg
    /\ track' = r.track
    /\ streamArg' = r.streamArg
    /\ closable' = r.closable
    /\ pc' = r.pc
    /\ limit' = r.limit
    /\ dest' = r.dest
    /\ idx' = r.idx
    /\ data' = r.data
    /\ result' = r.result
    /\ request' = r.request
    /\ total' = r.total
    /\ srcTime' = r.srcTime
    /\ destTime' = r.destTime
    /\ start' = r.start
    /\ value' = r.value
    /\ params' = r.params
    /\ delayed' = r.delayed
    /\ callArgs' = r.callArgs
    /\ mixed' = r.mixed
    /\ nextDelayed' = r.nextDelayed
    /\ destP' = r.destP
    /\ destThen' = r.destThen
    /\ batchP' = r.batchP
    /\ batchCalls' = r.batchCalls
    /\ batchDone' = r.batchDone
    /\ depth' = r.depth
    /\ outcome' = r.outcome
    /\ settles' = r.settles
    /\ srcCalls' = r.srcCalls
    /\ srcArgs' = r.srcArgs
    /\ srcResolved' = r.srcResolved
    /\ produced' = r.produced
    /\ thrown' = r.thrown
    /\ destCalls' = r.destCalls
    /\ destArgs' = r.destArgs
    /\ destSettled' = r.destSettled
    /\ reads' = r.reads
    /\ length' = r.length
    /\ index' = r.index
    /\ cbTime' = r.cbTime
    /\ ready' = r.ready
    /\ waiting' = r.waiting
    /\ stop' = r.stop
    /\ listeners' = r.listeners
    /\ buffer' = r.buffer
    /\ pushed' = r.pushed
    /\ ended' = r.ended
    /\ closed' = r.closed
    /\ drained' = r.drained
    /\ drains' = r.drains
    /\ genBody' = r.genBody
    /\ genPos' = r.genPos
    /\ fed' = r.fed
    /\ yieldP' = r.yieldP

\* Between two jobs, the next job that runs is one of the other invocation.
Switch ==
    /\ pc \notin Running
    /\ parked # NoInvocation
    /\ parked' = Park
    /\ Resume(parked)

\* The two calls: of the same method, with the same kinds of arguments.
\* A sequence takes two values at most, a page one page, and a stream has
\* one chunk to give.
TwoStarts ==
    {StartOf("sequence", "function", "undefined", 2, FALSE, "undefined", FALSE, 0),
     StartOf("sequence", "function", "generator", 1, TRUE, "undefined", FALSE, 0),
     StartOf("page", "generator", "generator", 1, FALSE, "undefined", FALSE, 0),
     StartOf("read", "undefined", "function", 0, FALSE, "stream", FALSE, MaxChunks - 1)}

InitTwo ==
    \E r \in TwoStarts :
        /\ Holds(r)
        /\ parked = r

NextTwo ==
    \/ Switch
    \/ ResolveLoop \/ ResolveThen \/ ResolveCatch
    \/ sequence \/ SeqLoop \/ SeqOnSuccess \/ SeqOnError
    \/ SeqDestThen \/ SeqDestCatch \/ SeqNext \/ SeqMicrotask
    \/ page \/ PageLoop \/ PageOnSuccess \/ PageOnError
    \/ PageBatchThen \/ PageBatchCatch \/ PageDestThen \/ PageDestCatch \/ PageNext
    \/ read \/ StreamPush \/ onReadable \/ process \/ receiverThen \/ receiverCatch
    \/ onEnd \/ onClose \/ onError

SpecTwo == InitTwo /\ [][NextTwo]_vars

(***************************************************************************)
(* Claims.                                                                 *)
(***************************************************************************)
\* The value the source resolved with at the pull before the last one.
PreviousValue == IF produced = <<>> THEN Undefined ELSE Last(produced)

\* The first failing item of a page.
FirstError(xs) ==
    xs[CHOOSE k \in 1..Len(xs) : IsError(xs[k]) /\ \A j \in 1..(k - 1) : ~IsError(xs[j])]

RECURSIVE SumOfLengths(_)
SumOfLengths(pages) ==
    IF pages = <<>> THEN 0
    ELSE Len(batchData(Head(pages).v)) + SumOfLengths(Tail(pages))

\* C1: in a sequence, dest(i) is called only once pull i has resolved, with
\* the value it resolved with; a pull begins only when every earlier value
\* went through dest, and never while the promise the last dest call
\* returned is pending, nor after it rejected.
C1_PullsAndDestSerialized ==
    [][driver = "sequence" =>
        /\ destCalls' # destCalls =>
              /\ destCalls' = srcResolved'
              /\ destArgs'[1] = srcCalls' - 1
              /\ destArgs'[2] = Last(produced')
        /\ srcCalls' # srcCalls =>
              /\ destP \notin {"pending", "rejected"}
              /\ srcResolved = srcCalls
              /\ dest # "null" => destCalls = srcCalls]_vars

C1_Witness ==
    /\ driver = "sequence"
    /\ srcCalls = 2
    /\ destCalls = 1
    /\ destSettled = 1

\* C2: an unlimited sequence whose source gave N values and then undefined
\* resolves, with total = N when track is false and with the array of the N
\* values in the order they were produced when track is true.
C2_TotalIsNumberOfValues ==
    driver = "sequence" =>
        /\ srcResolved > Len(produced) => pc \in {"onSuccess", "resolved"}
        /\ (pc = "resolved" /\ limit = 0) =>
              IF track
              THEN outcome.t = "array" /\ outcome.v = produced
              ELSE outcome.total = Len(produced)

C2_Witness ==
    /\ driver = "sequence" /\ pc = "resolved" /\ limit = 0
    /\ track
    /\ Len(produced) = 2
    /\ produced[1] # produced[2]

\* C3: with a limit L > 0 the source is never pulled and dest never called
\* more than L times, and once L values went through the method has
\* resolved reporting L (total, array length or pages), after exactly L
\* pulls and, with a dest, L dest calls.
Reported ==
    IF driver = "page" THEN outcome.pages
    ELSE IF track THEN Len(outcome.v) ELSE outcome.total

C3_LimitStopsAtL ==
    (driver \in {"sequence", "page"} /\ limitArg > 0) =>
        /\ srcCalls <= limitArg
        /\ destCalls <= limitArg
        /\ idx = limitArg =>
              /\ pc = "resolved"
              /\ Reported = limitArg
              /\ srcCalls = limitArg
              /\ dest # "null" => destCalls = limitArg

C3_Witness ==
    /\ driver = "page" /\ pc = "resolved"
    /\ limitArg = 2
    /\ srcCalls = 2
    /\ destCalls = 2

\* C4: a sequence rejects with {index, error, source} and no dest when the
\* source failed at that index (source is the value of the pull before), and
\* with {index, error, dest} and no source when dest failed on the value just
\* resolved.
C4_FailureSite ==
    (driver = "sequence" /\ pc = "rejected") =>
        IF srcResolved < srcCalls
        THEN /\ DOMAIN outcome = {"index", "error", "source"}
             /\ outcome.index = srcCalls - 1
             /\ outcome.error = thrown
             /\ outcome.source = PreviousValue
        ELSE /\ DOMAIN outcome = {"index", "error", "dest"}
             /\ outcome.index = destCalls - 1
             /\ outcome.index = destArgs[1]
             /\ outcome.error = thrown
             /\ outcome.dest = Last(produced)
             /\ outcome.dest = destArgs[2]

C4_Witness ==
    /\ driver = "sequence" /\ pc = "rejected"
    /\ srcResolved < srcCalls
    /\ outcome.index = 1
    /\ outcome.source \in SeqValues

C6_PagesAndTotal ==
    (driver = "page" /\ pc = "resolved") =>
        /\ outcome.pages = batchDone
        /\ outcome.pages = Len(produced)
        /\ outcome.total = SumOfLengths(produced)

C6_Witness ==
    /\ driver = "page" /\ pc = "resolved"
    /\ produced = <<Array(<<"v1", "v1">>), Array(<<"v1">>)>>
    /\ outcome.pages = 2
    /\ outcome.total = 3

\* C7: once a page source resolved with a value that is neither undefined
\* nor an array, the method has rejected with the index of that pull, the
\* error "Unexpected data returned from the source." and as source the
\* page resolved before; no batch and no dest call was made for the value,
\* and no pull follows.
C7_UnexpectedData ==
    (driver = "page" /\ produced # <<>> /\ Last(produced) = Plain("v1") /\ pc # "onSuccess") =>
        /\ pc = "rejected"
        /\ {"index", "error", "source"} \subseteq DOMAIN outcome
        /\ outcome.index = Len(produced) - 1
        /\ outcome.error = unexpected
        /\ outcome.source = IF Len(produced) = 1 THEN Undefined
                            ELSE Array(batchData(produced[Len(produced) - 1].v))
        /\ srcCalls = Len(produced)
        /\ batchCalls = Len(produced) - 1
        /\ destCalls = IF dest = "null" THEN 0 ELSE Len(produced) - 1

C7_Witness ==
    /\ driver = "page" /\ pc = "rejected"
    /\ produced # <<>>
    /\ Last(produced) = Plain("v1")
    /\ outcome.index = 1
    /\ outcome.source = Array(<<"v1">>)
    /\ destCalls = 1

\* C8: when the batch of page idx rejects, page rejects with an object that
\* has index idx and data (the batch's rejection) and none of error, source
\* and dest, and whose getError() gives the error of the first failing item;
\* for a failure of source or dest, getError() gives the object's error.
C8_BatchFailure ==
    (driver = "page" /\ pc = "rejected") =>
        IF batchP = "rejected"
        THEN /\ {"index", "data"} \subseteq DOMAIN outcome
             /\ DOMAIN outcome \cap {"error", "source", "dest"} = {}
             /\ outcome.index = Len(produced) - 1
             /\ outcome.data = batchError(Last(produced).v)
             /\ getError(outcome) = FirstError(Last(produced).v)
        ELSE /\ "error" \in DOMAIN outcome
             /\ "data" \notin DOMAIN outcome
             /\ getError(outcome) = outcome.error

C8_Witness ==
    /\ driver = "page" /\ pc = "rejected"
    /\ batchP = "rejected"
    /\ Last(produced) = Array(<<"e2", "e1">>)
    /\ outcome.index = 1

\* C9: in a page invocation the batch of page i starts once pull i has
\* resolved, dest(i) is called once that batch has resolved and with what
\* it resolved with, total grows only when a batch resolves, and a pull
\* begins only when the page before went through its batch and dest and
\* never while the promise of the last dest call is pending or rejected.
C9_PageStepsOrdered ==
    [][driver = "page" =>
        /\ batchCalls' # batchCalls =>
              /\ batchCalls' = srcResolved
              /\ batchCalls' = srcCalls
        /\ destCalls' # destCalls =>
              /\ batchP' = "resolved"
              /\ destCalls' = batchDone'
              /\ destArgs'[1] = srcCalls - 1
              /\ destArgs'[2] = Array(batchData(Last(produced).v))
        /\ total' # total =>
              /\ batchP = "pending" /\ batchP' = "resolved"
              /\ total' = total + Len(batchData(Last(produced).v))
        /\ srcCalls' # srcCalls =>
              /\ batchP # "pending"
              /\ batchDone = srcCalls
              /\ destP \notin {"pending", "rejected"}
              /\ dest # "null" => destCalls = srcCalls]_vars

C9_Witness ==
    /\ driver = "page"
    /\ srcCalls = 2
    /\ batchDone = 1
    /\ destSettled = 1
    /\ total = 2

\* C10: in a session of read, while the promise the receiver returned is
\* pending, the stream is not read, its buffer is not taken from and the
\* receiver is not called, whatever events arrive.
C10_NoDrainWhileReceiverPending ==
    [][(driver = "read" /\ destP = "pending") =>
          /\ drained' = drained
          /\ destCalls' = destCalls
          /\ index' = index
          /\ Len(buffer') >= Len(buffer)]_vars

C10_Witness ==
    /\ driver = "read"
    /\ destP = "pending"
    /\ ready
    /\ buffer # <<>>
    /\ destCalls = 1

\* C11: once the promise read returned has settled, by success or by
\* failure, none of the listeners of readable, end, close and error is on
\* the stream, whatever the order of events and receiver outcomes; until
\* then all four are.
C11_ListenersRemoved ==
    (driver = "read" /\ pc # "init") =>
        /\ IsSettled => listeners = {}
        /\ (~IsSettled /\ pc # "thrown") => listeners = Events

C11_Witness ==
    /\ driver = "read"
    /\ settles.resolve = 1
    /\ settles.reject = 1
    /\ destP = "rejected"
    /\ listeners = {}

\* The chunks of a sequence of batches.
RECURSIVE Chunks(_)
Chunks(batches) == IF batches = <<>> THEN <<>> ELSE Head(batches) \o Chunks(Tail(batches))

\* C12: when read resolves, calls is the number of receiver calls made,
\* which is the number of non-empty batches read; reads is the number of
\* chunks read from the stream and length the sum of their lengths.  The
\* receiver is called with the indices 0, 1, 2, ... and with the batch just
\* read, and reading an empty buffer calls no receiver.
C12_Counters ==
    [][driver = "read" =>
        /\ (~IsSettled /\ settles'.resolve = 1) =>
              /\ outcome'.calls = destCalls'
              /\ outcome'.calls = Len(drains')
              /\ outcome'.reads = Len(Chunks(drains'))
              /\ outcome'.length = Sum(Chunks(drains'))
        /\ destCalls' # destCalls =>
              /\ destCalls' = destCalls + 1
              /\ destArgs'[1] = destCalls
              /\ destArgs'[2] = buffer
              /\ drains' = Append(drains, destArgs'[2])
        /\ (drained' # drained /\ buffer = <<>>) => destCalls' = destCalls]_vars

C12_Witness ==
    /\ driver = "read"
    /\ settles = [resolve |-> 1, reject |-> 0]
    /\ drains = <<<<2, 1>>>>
    /\ outcome.calls = 1
    /\ outcome.reads = 2
    /\ outcome.length = 3

\* C13: without closable, read resolves on 'end' and 'close' does not make
\* it resolve; with closable, read does not resolve on 'end' and resolves
\* on 'close'.
C13_SuccessTrigger ==
    driver = "read" =>
        /\ settles.resolve > 0 => IF closable THEN closed ELSE ended
        /\ (~closable /\ ended /\ settles.reject = 0) => settles.resolve > 0
        /\ (closable /\ closed /\ settles.reject = 0) => settles.resolve > 0

\* C14: when the receiver throws, or the promise it returned rejects, and
\* the stream raised no error before, read rejects with that error or
\* reason, whenever 'end' and 'close' arrive.
C14_ReceiverFailureRejects ==
    [][(/\ driver = "read"
        /\ settles.reject = 0
        /\ \/ destCalls' # destCalls /\ stop'
           \/ destP = "pending" /\ destP' = "rejected") =>
          /\ settles.resolve = 0
          /\ settles'.reject = 1
          /\ outcome' = thrown']_vars

\* The step in which the listener of 'error' runs: the listeners go, and
\* neither the receiver nor 'end' or 'close' had a part in it.
StreamErrorStep ==
    /\ "error" \in listeners /\ "error" \notin listeners'
    /\ destCalls' = destCalls /\ destP' = destP
    /\ ended' = ended /\ closed' = closed

\* C15: when the stream emits 'error' in a session of read, read rejects
\* with the error emitted; from then on the receiver is not called and the
\* stream is not read, also when a promise of the receiver that was
\* pending resolves afterwards.
C15_StreamErrorStops ==
    [][driver = "read" =>
        /\ StreamErrorStep =>
              /\ ~IsSettled
              /\ settles' = [resolve |-> 0, reject |-> 1]
              /\ outcome' \in Errors
              /\ outcome' = thrown'
              /\ stop'
        /\ stop =>
              /\ stop'
              /\ drained' = drained
              /\ Len(buffer') >= Len(buffer)
              /\ destCalls' = destCalls
              /\ outcome' = outcome]_vars

C15_Witness ==
    /\ driver = "read" /\ pc = "listening"
    /\ stop
    /\ settles = [resolve |-> 0, reject |-> 1]
    /\ destCalls = 1
    /\ destP = "resolved"
    /\ ready
    /\ buffer # <<>>

\* The arguments the methods refuse.
InvalidArguments ==
    \/ driver = "read" /\ (streamArg # "stream" \/ destArg \notin {"function", "generator"})
    \/ driver \in {"sequence", "page"} /\ sourceArg \notin {"function", "generator"}

\* C16: with a source that is no function (sequence, page), or a stream
\* that is no readable stream or a receiver that is no function (read), the
\* call throws: no promise is made, the source is not called and no
\* listener is put on the stream.  Valid arguments do not make it throw.
C16_ValidationThrows ==
    /\ InvalidArguments =>
          /\ pc \in {"init", "thrown"}
          /\ start = NoTime
          /\ settles = [resolve |-> 0, reject |-> 0]
          /\ outcome = Undefined
          /\ srcCalls = 0
          /\ destCalls = 0
          /\ listeners = {}
          /\ pc = "thrown" =>
                thrown \in {"Invalid sequence source.", "Invalid page source.",
                            "Readable stream is required.", "Invalid stream receiver."}
    /\ (driver \in {"sequence", "page", "read"} /\ ~InvalidArguments) => pc # "thrown"

C16_Witness ==
    /\ driver = "read" /\ pc = "thrown"
    /\ streamArg = "stream"
    /\ destArg = "undefined"
    /\ thrown = "Invalid stream receiver."

\* The error a reject object of sequence or page reports.
ErrorOf(reason) ==
    IF "data" \in DOMAIN reason THEN reason.data.getErrors[1] ELSE reason.error

\* C17: in sequence and page, once the source, dest, the batch or the
\* check of the page has failed, the source is not called again, dest is
\* not called again, no batch is started, and the method rejects with the
\* record of that failure: its index and its error.
C17_FirstFailureTerminates ==
    [][(driver \in {"sequence", "page"} /\ pc' # "thrown" /\ thrown' # NoError) =>
          /\ pc' \in {"onError", "rejected"}
          /\ pc' = "rejected" =>
                /\ settles' = [resolve |-> 0, reject |-> 1]
                /\ ErrorOf(outcome') = thrown'
                /\ outcome'.index = idx
          /\ thrown # NoError =>
                /\ pc' = "rejected"
                /\ thrown' = thrown
                /\ srcCalls' = srcCalls
                /\ destCalls' = destCalls
                /\ batchCalls' = batchCalls]_vars

C17_Witness ==
    /\ driver = "page" /\ pc = "rejected"
    /\ destP = "rejected"
    /\ srcCalls = 1
    /\ destCalls = 1
    /\ limit = 0
    /\ outcome.index = 0
    /\ outcome.error = thrown

\* What the pull before the next one resolved with, as the source is to
\* get it: the value itself in a sequence, the page as its batch resolved
\* it in page.
ResolvedBefore ==
    IF produced = <<>> THEN Undefined
    ELSE IF driver = "page" THEN Array(batchData(Last(produced).v))
    ELSE Last(produced)

\* C18: the source of sequence and page is called with (idx, previous,
\* delay): idx counts the calls from 0 without gaps, previous is undefined
\* at the first call and afterwards what the call before resolved with (in
\* page, the page as resolved by its batch), and delay is undefined at the
\* first call only, and a number of milliseconds afterwards.
C18_SourceArguments ==
    [][(driver \in {"sequence", "page"} /\ srcCalls' # srcCalls) =>
          /\ srcCalls' = srcCalls + 1
          /\ Len(produced) = srcCalls
          /\ srcArgs'[1] = srcCalls
          /\ srcArgs'[2] = ResolvedBefore
          /\ srcArgs'[3] = IF srcCalls = 0 THEN NoTime ELSE Ms]_vars

C18_Witness ==
    /\ driver = "page"
    /\ srcCalls = 2
    /\ srcArgs = <<1, Array(<<"v1", "v1">>), Ms>>

\* C19 as stated: of the callables the resolver calls while it unwraps one
\* mixed value, the first is called with the parameters and every later
\* one, returned by a callable or resolved by a promise, with no argument.
C19_Original ==
    \A k \in 1..Len(callArgs) : callArgs[k] = IF k = 1 THEN "params" ELSE "none"

\* C19, amended: the resolver calls every callable of the chain, the
\* first one and those returned by a callable or resolved by a promise,
\* with the parameters it was given.
C19_EveryCallableGetsParams ==
    [][(pc = "resolve" /\ callArgs' # callArgs) =>
          /\ params # <<>>
          /\ Len(callArgs') = Len(callArgs) + LeadingFns(value.wraps)
          /\ \A k \in 1..Len(callArgs') : callArgs'[k] = "params"]_vars

C19_Witness ==
    /\ driver = "sequence" /\ pc = "onSuccess"
    /\ delayed
    /\ callArgs = <<"params", "params">>
    /\ params[1] = 1

\* Whether a promise is among the layers of a mixed value.
HasPromise(w) == \E k \in 1..Len(w) : w[k] = "promise"

\* C20: the resolver calls onSuccess with delayed true exactly when the
\* mixed value it unwrapped held a promise, which it waited for; a value
\* under callables only is handed on as it is, with delayed false.
C20_DelayedIffAwaited ==
    pc = "onSuccess" =>
        /\ delayed = HasPromise(mixed.wraps)
        /\ value.wraps = <<>>
        /\ value.end = mixed.end
        /\ mixed.end.kind = "value"

C20_Witness ==
    /\ driver = "sequence" /\ pc = "onSuccess"
    /\ mixed.wraps = <<"fn", "fn", "fn">>
    /\ mixed.end.v = Plain("v2")
    /\ ~delayed

\* C21: the function asyncAdapter returns never throws: an error the
\* body throws, at its first step or after a yield, and a rejection of a
\* yielded value that the body does not catch, reject the promise the
\* function returns, with that error.
C21_AdapterNeverThrows ==
    driver = "asyncAdapter" =>
        /\ pc # "thrown"
        /\ thrown # NoError =>
              /\ pc = "rejected"
              /\ outcome = thrown

\* What the value the body yielded at its step k settles with, as the body
\* is to get it back.
SettledYield(k) ==
    IF genBody[k].kind = "value" THEN [op |-> "next", v |-> genBody[k].v, e |-> NoError]
    ELSE [op |-> "throw", v |-> Undefined, e |-> genBody[k].e]

\* C22: the adapter takes the body one step at a time: a step after the
\* first is taken only when the promise of the value yielded last settles,
\* and the body is given the value it resolved with as the result of that
\* yield, or its rejection as a throw at that yield; when the body
\* returns, the promise resolves with the value it returned.
C22_AdapterSteps ==
    [][driver = "asyncAdapter" =>
        /\ genPos' # genPos =>
              /\ genPos' = genPos + 1
              /\ genPos > 0 => (yieldP = "pending" /\ fed' # fed)
        /\ fed' # fed =>
              /\ yieldP = "pending" /\ genBody[genPos].op = "yield"
              /\ Len(fed) = genPos - 1
              /\ fed' = Append(fed, SettledYield(genPos))
        /\ yieldP' = "pending" => (pc' = "awaitYield" /\ settles' = settles)
        /\ pc' = "resolved" =>
              /\ genBody[genPos'].op = "return"
              /\ outcome' = genBody[genPos'].v]_vars

C22_Witness ==
    /\ driver = "asyncAdapter" /\ pc = "resolved"
    /\ fed = <<[op |-> "throw", v |-> Undefined, e |-> "e2"],
               [op |-> "next", v |-> Plain("v2"), e |-> NoError]>>
    /\ outcome = Plain("v1")

\* C23: when a step of a sequence ended with nothing waited for (the
\* source resolved with no promise on the way, and there is no dest or it
\* returned no promise), the next pull starts in a microtask of its own;
\* otherwise next() calls loop itself.  No loop is entered while a loop of
\* the same invocation is on the call stack.
C23_NoNestedLoop ==
    [][driver = "sequence" =>
        /\ (pc = "next" /\ pc' # "resolved") =>
              IF ~HasPromise(mixed.wraps) /\ destP # "resolved"
              THEN pc' = "microtask" /\ depth' = 0
              ELSE pc' = "loop" /\ depth' = 0
        /\ depth' <= 1]_vars

C23_Witness ==
    /\ driver = "sequence" /\ pc = "resolve"
    /\ srcCalls = 3
    /\ depth = 1
    /\ dest # "null" /\ destP = "none"
    /\ ~delayed

\* C24: in a session of read, a 'readable' that arrived while a promise of
\* the receiver was pending stays noted until that promise settles; when
\* the promise resolves, process() runs again with no further 'readable',
\* and, the session not being settled, it hands what is in the buffer to
\* the receiver in a new call.
C24_ReadableNotLost ==
    [][driver = "read" =>
        /\ (destP = "pending" /\ ready) => ready'
        /\ (destP = "pending" /\ destP' = "resolved") =>
              /\ pc' = "process"
              /\ ~waiting'
              /\ ready' = ready
              /\ buffer' = buffer
        /\ (pc = "process" /\ destP = "resolved" /\ ready /\ ~IsSettled /\ buffer # <<>>) =>
              /\ destCalls' = destCalls + 1
              /\ destArgs'[1] = destCalls
              /\ destArgs'[2] = buffer
              /\ buffer' = <<>>]_vars

C24_Witness ==
    /\ driver = "read" /\ pc = "listening"
    /\ ~IsSettled
    /\ destSettled = 1
    /\ destCalls = 2
    /\ drains = <<<<1>>, <<2>>>>
    /\ destArgs[1] = 1
    /\ destArgs[2] = <<2>>

\* What the variables of one invocation r say about that invocation alone:
\* its index follows its own pulls, its counters its own reads, and the
\* result it settled with is that of the values its own source produced.
OwnState(r) ==
    /\ r.driver \in {"sequence", "page"} =>
          /\ r.srcCalls \in {r.idx, r.idx + 1}
          /\ r.srcResolved \in {r.idx, r.idx + 1}
          /\ r.srcCalls > 0 => r.srcArgs[1] = r.srcCalls - 1
    /\ (r.driver = "sequence" /\ r.pc = "resolved") =>
          IF r.track
          THEN r.outcome.v = r.produced
          ELSE r.outcome.total = Len(r.produced)
    /\ (r.driver = "sequence" /\ r.pc = "rejected") =>
          /\ r.outcome.index = r.idx
          /\ r.outcome.error = r.thrown
    /\ (r.driver = "page" /\ r.pc = "resolved") =>
          /\ r.outcome.pages = Len(r.produced)
          /\ r.outcome.total = SumOfLengths(r.produced)
    /\ (r.driver = "page" /\ r.pc = "rejected") =>
          /\ r.outcome.index = r.idx
          /\ ErrorOf(r.outcome) = r.thrown
    /\ r.driver = "read" =>
          /\ r.index = Len(r.drains)
          /\ r.index = r.destCalls
          /\ r.reads = Len(Chunks(r.drains))
          /\ r.length = Sum(Chunks(r.drains))
          /\ r.pushed = MaxChunks - 1 + Len(r.buffer) + r.reads

\* Two records of variables are those of one invocation in one state.  (What
\* a promise settled with is compared once the calls of resolve and reject
\* are known to be the same.)
SameInvocation(r, q) ==
    /\ r.settles = q.settles
    /\ r = q

\* C25: of two invocations of one driver whose callbacks interleave, a job
\* of one changes no variable of the other (when the other's job runs next
\* it finds its index, previous value, accumulator, counters and flags as
\* its own last job left them), and each settles with the result of its own
\* pulls or reads, as it does alone.  (After any job of an invocation a job
\* of the other may run, so the variables an invocation leaves behind are
\* all seen in parked.)
C25_InvocationsIndependent ==
    [][/\ \/ SameInvocation(parked', parked)
          \/ SameInvocation(parked', Park) /\ SameInvocation(Park', parked)
       /\ OwnState(parked')]_vars

C25_Witness ==
    /\ driver = "sequence" /\ ~track
    /\ pc = "resolved"
    /\ outcome.total = 2
    /\ idx = 2
    /\ parked.pc = "awaitSource"
    /\ parked.idx = 0
    /\ parked.srcCalls = 1

\* C26: read does not call resolve while a promise the receiver returned is
\* pending: 'end' or 'close' arriving while the receiver processes a batch
\* does not settle the session before that promise has settled.
C26_NoSuccessWhileReceiverPending ==
    [][(driver = "read" /\ settles'.resolve # settles.resolve) =>
          destP # "pending"]_vars

\* C27: once the promise read returned has settled, by success or by
\* failure, the session reads the stream no more, calls the receiver no
\* more, and calls neither resolve nor reject again.
C27_NothingAfterSettled ==
    [][(driver = "read" /\ IsSettled) =>
          /\ drained' = drained
          /\ destCalls' = destCalls
          /\ settles' = settles]_vars

\* C28: in sequence and page, every call of the resolver (one per pull) ends
\* in one call of onSuccess or one call of onError, never both and never
\* twice: onSuccess is called from loop() only, once for the pull, onError
\* only for a pull onSuccess was not called for, and after onError nothing of
\* the invocation runs but reject.  Neither is called while the resolver
\* waits, which it does for a promise only; a new pull begins only after the
\* onSuccess of the one before, and the invocation calls resolve or reject
\* once in all: when it stops.
C28_OneCallbackOneSettle ==
    [][(driver = "sequence" \/ driver = "page") =>
        /\ srcCalls' # srcCalls =>
              /\ srcCalls' = srcCalls + 1
              /\ srcResolved = srcCalls
              /\ pc' \in {"resolve", "onError"}
        /\ srcResolved' # srcResolved =>
              /\ pc = "resolve" /\ pc' = "onSuccess"
              /\ srcResolved' = srcResolved + 1
              /\ srcResolved' = srcCalls
        /\ pc' = "onSuccess" => srcResolved' # srcResolved
        /\ pc' = "onError" =>
              /\ pc \in {"loop", "resolve", "awaitSource"}
              /\ srcResolved' = srcCalls' - 1
        /\ pc = "onError" =>
              /\ pc' = "rejected"
              /\ srcResolved' = srcResolved
        /\ pc' = "awaitSource" =>
              /\ srcResolved' = srcCalls' - 1
              /\ value'.wraps # <<>> /\ Head(value'.wraps) = "promise"
        /\ pc' \in {"awaitDest", "awaitBatch", "microtask", "resolved"} =>
              srcResolved' = srcCalls'
        /\ pc \notin {"resolved", "rejected", "thrown"}
        /\ settles'.resolve + settles'.reject <= 1
        /\ (settles'.resolve = 1) <=> (pc' = "resolved")
        /\ (settles'.reject = 1) <=> (pc' = "rejected")]_vars

C28_Witness ==
    /\ driver = "sequence" /\ pc = "rejected"
    /\ mixed.wraps = <<"fn", "promise">> /\ mixed.end.kind = "reject"
    /\ srcCalls = 2
    /\ srcResolved = 1
    /\ settles = [resolve |-> 0, reject |-> 1]

====
